---- MODULE Spec2Model ----
(***************************************************************************)
(* bmv-quiz: the quiz server (routes over MemStorage / DbStorage, with the *)
(* cross-device sync endpoint; the two classes side by side; DbStorage     *)
(* with overlapping requests), the client's quiz collection with its      *)
(* cards, dialogs and quiz timer, the page's chunked persistence in        *)
(* localStorage, and the export encoding.                                  *)
(*                                                                         *)
(* A JavaScript object is a function from its own keys to values: a key    *)
(* that is absent from the object is absent from the DOMAIN.  A stored     *)
(* quiz row carries id, uniqueId, title, password and version; `title`     *)
(* stands for the required content columns (title, description,           *)
(* questions, timer, category) and `password` for the optional nullable    *)
(* ones (password, history, lastTaken).                                    *)
(***************************************************************************)
EXTENDS Integers, Sequences, FiniteSets, TLC

VARIABLES
    backend,          \* "mem" | "db": which IStorage `storage` is (fixed at startup)
    quizCollection,   \* MemStorage.quizCollection / the quizzes table: id -> row
    quizCurrentId,    \* MemStorage.quizCurrentId / the serial of quizzes.id
    uuidCount,        \* how many uuidv4() values the server has drawn
    lastCall,         \* history: the last request, [op |-> ..., ...]
    response,         \* history: the HTTP status of the last request
    hist,             \* history: the stores the last request went through,
                      \*   hist[1] before it, hist[i+1] after its i-th record
    sent,             \* history: number of records the requests so far carried
    deleted           \* history: [uniqueId, version] of the rows deleteQuiz removed

serverVars == <<backend, quizCollection, quizCurrentId, uuidCount, lastCall,
                response, hist, sent, deleted>>

\* The client (Quiz.tsx): React state of the Quiz page.  A position in a list
\* is 1-based here (JavaScript index + 1); 0 stands for null.
VARIABLES
    quizzes,                  \* the quiz collection
    newQuiz,                  \* the create / edit form
    newQuestions,             \* the questions of the form
    quizToEdit,               \* position handed to handleEditQuiz, or 0
    quizToDelete,             \* position handed to handleDeleteQuiz, or 0
    passwordInput,
    passwordDialogOpen,
    deletePasswordDialogOpen,
    isEditMode,
    formIds,                  \* how many uuidv4() values the page has drawn
    selectedCategory,         \* the category filter of the list, or Null
    lastHandler,              \* history: the last handler that ran
    quizzesBefore,            \* history: quizzes before that handler
    clickedCard               \* history: the quiz of the card whose Edit or Delete
                              \* opened the dialog that is open, <<>> when none is

clientVars == <<quizzes, newQuiz, newQuestions, quizToEdit, quizToDelete,
                passwordInput, passwordDialogOpen, deletePasswordDialogOpen,
                isEditMode, formIds, selectedCategory, lastHandler, quizzesBefore,
                clickedCard>>

\* The persistence helpers of the page (saveToLocalStorage, loadFromLocalStorage)
\* over the browser's localStorage.
VARIABLES
    localStorage,     \* entry name -> stored string; an absent name is a null getItem
    storageBefore,    \* history: localStorage before the last helper call
    lastSave,         \* history: the last saveToLocalStorage call and what it returned
    lastLoad,         \* history: the loadFromLocalStorage call made since, or none
    saves             \* history: number of saveToLocalStorage calls

storageVars == <<localStorage, storageBefore, lastSave, lastLoad, saves>>

\* The export encoding (lib/utils: encodeQuizData, decodeQuizData) applied to a
\* JSON string.
VARIABLES
    codecInput,       \* the JSON string handed to encodeQuizData
    codecPath,        \* which of its three returns encodeQuizData takes
    codecData,        \* what encodeQuizData returned
    codecOutput,      \* what decodeQuizData returned for it
    codecStep         \* "idle" | "input" | "encoded" | "decoded"

codecVars == <<codecInput, codecPath, codecData, codecOutput, codecStep>>

\* The two storage classes side by side: one MemStorage and one DbStorage,
\* both new, given the same calls.
VARIABLES
    memStore,         \* the MemStorage
    dbStore,          \* the DbStorage
    memReturn,        \* what the last call returned on the MemStorage
    dbReturn,         \* what the last call returned on the DbStorage
    pairCall,         \* the last call
    pairCalls         \* how many calls were made

pairVars == <<memStore, dbStore, memReturn, dbReturn, pairCall, pairCalls>>

\* The quiz being taken (Quiz.tsx: the quiz modal and its timer).
VARIABLES
    currentQuiz,          \* the quiz handed to handleStartQuiz, <<>> for null
    currentQuestionIndex,
    timer,
    isQuizRunning,
    showResults,
    isQuizModalOpen

runVars == <<currentQuiz, currentQuestionIndex, timer, isQuizRunning, showResults,
             isQuizModalOpen>>

\* DbStorage under requests in flight at the same time: each is a chain of
\* awaits, and the server takes up another request at every await.
VARIABLES
    table,            \* the quizzes table: id -> row
    requests,         \* request -> where it stands and what it has read
    applied           \* history: how many updateQuiz calls have written their row

raceVars == <<table, requests, applied>>

\* what the server, the page and the persistence helpers never touch
auxVars == <<codecVars, pairVars, runVars, raceVars>>

vars == <<serverVars, clientVars, storageVars, auxVars>>

----------------------------------------------------------------------------
(* Bounds of the model. *)
MaxRecords == 4   \* records sent to the server in one run, over all requests
MaxQuizzes == 2   \* quizzes the client holds
MaxForms == 4     \* forms the page opens in one run (each draws a fresh id)
MaxSaves == 3     \* saveToLocalStorage calls in one run
MaxBody == 4      \* characters between the braces of an exported JSON string
MaxCalls == 3     \* storage calls made on the two classes side by side
MaxTimer == 3     \* the largest timer typed into the form or carried by an import
MaxRequests == 2  \* requests the server has in flight at the same time

----------------------------------------------------------------------------
(* JavaScript objects. *)

Null == "<null>"

Has(o, k) == k \in DOMAIN o

\* { ...a, ...b }
Spread(a, b) ==
    [k \in (DOMAIN a) \cup (DOMAIN b) |-> IF k \in DOMAIN b THEN b[k] ELSE a[k]]

\* o.version is set and truthy (neither undefined nor 0)
VersionSet(o) == Has(o, "version") /\ o.version # 0

\* uuidv4(): the n-th value drawn; fresh, never an identifier a client sends
Uuid(n) == "uuid" \o ToString(n)

Min(S) == CHOOSE m \in S : \A n \in S : m <= n

----------------------------------------------------------------------------
(* Request bodies. *)

\* bodies that pass insertQuizSchema: a quiz "x" at version 1 with either
\* content, the same quiz at versions 3 and 0, and a quiz with no identifier
\* and no version yet
ValidBodies ==
    {[uniqueId |-> "x", title |-> "A", version |-> 1],
     [uniqueId |-> "x", title |-> "B", password |-> "p", version |-> 1],
     [uniqueId |-> "x", title |-> "A", version |-> 3],
     [uniqueId |-> "x", title |-> "A", version |-> 0],
     [uniqueId |-> "", title |-> "A"]}

\* a body without its required content fields
MalformedBodies == {[uniqueId |-> "x", version |-> 1]}

Bodies == ValidBodies \cup MalformedBodies

\* bodies of PUT: any part of an InsertQuiz
PutBodies == {[title |-> "B"], [uniqueId |-> "x"], [uniqueId |-> ""]}

\* insertQuizSchema.parse succeeds
ParsesInsert(b) == Has(b, "uniqueId") /\ Has(b, "title")

RECURSIVE SeqsUpTo(_, _)
SeqsUpTo(S, n) ==
    IF n = 0 THEN {<<>>}
    ELSE LET shorter == SeqsUpTo(S, n - 1)
         IN  shorter \cup {Append(s, x) : s \in {t \in shorter : Len(t) = n - 1}, x \in S}

\* the arrays a sync request can carry when n more records may be sent
Batches(n) == SeqsUpTo(Bodies, n) \ {<<>>}

----------------------------------------------------------------------------
(* The store as the storage methods see it. *)

Store(coll, nextId, uuids) == [coll |-> coll, nextId |-> nextId, uuids |-> uuids]

CurrentStore == Store(quizCollection, quizCurrentId, uuidCount)

\* the ids of the rows whose uniqueId is uid
IdsWithUniqueId(coll, uid) == {i \in DOMAIN coll : coll[i].uniqueId = uid}

\* getQuizByUniqueId: the first match in insertion order (ids only grow), or none
GetQuizByUniqueId(coll, uid) ==
    IF IdsWithUniqueId(coll, uid) = {} THEN <<>>
    ELSE coll[Min(IdsWithUniqueId(coll, uid))]

----------------------------------------------------------------------------
(* MemStorage. *)

\* the result of a storage method: the store after it, the row it returns
\* (<<>> for undefined), and whether it threw
Result(st, row, threw) == [st |-> st, row |-> row, threw |-> threw]

\* Map.set(id, row)
MapSet(coll, id, row) ==
    [i \in (DOMAIN coll) \cup {id} |-> IF i = id THEN row ELSE coll[i]]

\* Map.delete(id)
MapDelete(coll, id) == [i \in (DOMAIN coll) \ {id} |-> coll[i]]

\* if (!quiz.uniqueId) quiz.uniqueId = uuidv4()
NeedsUuid(quiz) == ~Has(quiz, "uniqueId") \/ quiz.uniqueId = ""

WithUniqueId(st, quiz) ==
    IF NeedsUuid(quiz)
    THEN Spread(quiz, [uniqueId |-> Uuid(st.uuids + 1)])
    ELSE quiz

UuidsAfter(st, quiz) == IF NeedsUuid(quiz) THEN st.uuids + 1 ELSE st.uuids

MemCreateQuiz(st, quiz) ==
    LET id == st.nextId
        version == IF VersionSet(quiz) THEN quiz.version ELSE 1
        password == IF Has(quiz, "password") THEN quiz.password ELSE Null
        newRow == Spread(WithUniqueId(st, quiz),
                          [id |-> id, version |-> version, password |-> password])
    IN  Result(Store(MapSet(st.coll, id, newRow), id + 1, UuidsAfter(st, quiz)),
               newRow, FALSE)

\* existingQuiz.version ? existingQuiz.version + 1 : 1
BumpedVersion(existing) == IF existing.version # 0 THEN existing.version + 1 ELSE 1

MemUpdateQuiz(st, id, quizUpdate) ==
    IF id \notin DOMAIN st.coll
    THEN Result(st, <<>>, FALSE)
    ELSE LET existingQuiz == st.coll[id]
             updatedQuiz == Spread(Spread(existingQuiz, quizUpdate),
                                   [version |-> BumpedVersion(existingQuiz)])
         IN  Result(Store(MapSet(st.coll, id, updatedQuiz), st.nextId, st.uuids),
                    updatedQuiz, FALSE)

MemDeleteQuiz(st, id) ==
    Result(Store(MapDelete(st.coll, id), st.nextId, st.uuids),
           id \in DOMAIN st.coll, FALSE)

----------------------------------------------------------------------------
(* DbStorage: the quizzes table, unique_id UNIQUE, version DEFAULT 1. *)

\* INSERT ... RETURNING; a duplicate unique_id is rejected (the statement
\* throws, the serial value it took is not given back)
DbCreateQuiz(st, quiz) ==
    LET id == st.nextId
        withId == WithUniqueId(st, quiz)
        row == Spread([password |-> Null, version |-> 1],
                      Spread(withId, [id |-> id]))
    IN  IF IdsWithUniqueId(st.coll, withId.uniqueId) # {}
        THEN Result(Store(st.coll, id + 1, UuidsAfter(st, quiz)), <<>>, TRUE)
        ELSE Result(Store(MapSet(st.coll, id, row), id + 1, UuidsAfter(st, quiz)),
                    row, FALSE)

\* UPDATE ... SET {...quizUpdate, version: newVersion} WHERE id = ... RETURNING
DbUpdateQuiz(st, id, quizUpdate) ==
    IF id \notin DOMAIN st.coll
    THEN Result(st, <<>>, FALSE)
    ELSE LET currentRow == st.coll[id]    \* currentQuiz of updateQuiz
             newVersion == BumpedVersion(currentRow)
             row == Spread(currentRow, Spread(quizUpdate, [version |-> newVersion]))
         IN  IF Has(quizUpdate, "uniqueId")
                /\ IdsWithUniqueId(st.coll, quizUpdate.uniqueId) \ {id} # {}
             THEN Result(st, <<>>, TRUE)
             ELSE Result(Store(MapSet(st.coll, id, row), st.nextId, st.uuids),
                         row, FALSE)

DbDeleteQuiz(st, id) ==
    Result(Store(MapDelete(st.coll, id), st.nextId, st.uuids),
           id \in DOMAIN st.coll, FALSE)

----------------------------------------------------------------------------
(* storage = process.env.DATABASE_URL ? new DbStorage() : new MemStorage() *)

CreateQuiz(b, st, quiz) ==
    IF b = "db" THEN DbCreateQuiz(st, quiz) ELSE MemCreateQuiz(st, quiz)

UpdateQuiz(b, st, id, quizUpdate) ==
    IF b = "db" THEN DbUpdateQuiz(st, id, quizUpdate) ELSE MemUpdateQuiz(st, id, quizUpdate)

\* a delete that leaves the row in the store as a tombstone
DeleteQuizTombstone(b, st, id) == Result(st, id \in DOMAIN st.coll, FALSE)

DeleteQuiz(b, st, id) ==
    IF b = "db" THEN DbDeleteQuiz(st, id) ELSE MemDeleteQuiz(st, id)

\* !existingQuiz.version || !quizToSync.version
\*   || quizToSync.version >= existingQuiz.version
SyncAccepts(existingQuiz, quizToSync) ==
    \/ ~VersionSet(existingQuiz)
    \/ ~VersionSet(quizToSync)
    \/ quizToSync.version >= existingQuiz.version

\* a turn that treats the incoming record as the whole collection: rows of
\* another uniqueId are dropped (replace-all instead of merge)
SyncOneReplacingAll(b, st, quizToSync) ==
    LET same == IdsWithUniqueId(st.coll, quizToSync.uniqueId)
        kept == Store([i \in same |-> st.coll[i]], st.nextId, st.uuids)
    IN  IF same # {}
        THEN LET existingQuiz == GetQuizByUniqueId(st.coll, quizToSync.uniqueId)
             IN  IF SyncAccepts(existingQuiz, quizToSync)
                 THEN UpdateQuiz(b, kept, existingQuiz.id, quizToSync)
                 ELSE Result(kept, existingQuiz, FALSE)
        ELSE CreateQuiz(b, kept, quizToSync)

\* one turn of the loop of syncQuizzes (the same text in both classes)
SyncOne(b, st, quizToSync) ==
    IF IdsWithUniqueId(st.coll, quizToSync.uniqueId) # {}
    THEN LET existingQuiz == GetQuizByUniqueId(st.coll, quizToSync.uniqueId)
         IN  IF SyncAccepts(existingQuiz, quizToSync)
             THEN UpdateQuiz(b, st, existingQuiz.id, quizToSync)
             ELSE Result(st, existingQuiz, FALSE)
    ELSE CreateQuiz(b, st, quizToSync)

\* syncQuizzes: the stores the loop goes through, <<before, after record 1, ...>>;
\* a throw ends the loop and keeps what was written before it
RECURSIVE SyncStores(_, _, _)
SyncStores(b, st, quizzesToSync) ==
    IF quizzesToSync = <<>> THEN <<st>>
    ELSE LET r == SyncOne(b, st, Head(quizzesToSync))
         IN  IF r.threw THEN <<st, r.st>>
             ELSE <<st>> \o SyncStores(b, r.st, Tail(quizzesToSync))

RECURSIVE SyncThrows(_, _, _)
SyncThrows(b, st, quizzesToSync) ==
    IF quizzesToSync = <<>> THEN FALSE
    ELSE LET r == SyncOne(b, st, Head(quizzesToSync))
         IN  r.threw \/ SyncThrows(b, r.st, Tail(quizzesToSync))

Last(s) == s[Len(s)]

----------------------------------------------------------------------------
(* The routes. *)

ServerInit ==
    /\ backend \in {"mem", "db"}
    /\ quizCollection = <<>>
    /\ quizCurrentId = 1
    /\ uuidCount = 0
    /\ lastCall = [op |-> "none"]
    /\ response = 0
    /\ hist = <<Store(<<>>, 1, 0)>>
    /\ sent = 0
    /\ deleted = {}

Served(call, status, stores, n) ==
    /\ lastCall' = call
    /\ response' = status
    /\ hist' = stores
    /\ quizCollection' = Last(stores).coll
    /\ quizCurrentId' = Last(stores).nextId
    /\ uuidCount' = Last(stores).uuids
    /\ sent' = sent + n
    /\ deleted' = IF call.op = "delete" /\ status = 200
                  THEN deleted \cup {[uniqueId |-> stores[1].coll[call.id].uniqueId,
                                      version |-> stores[1].coll[call.id].version]}
                  ELSE deleted
    /\ UNCHANGED backend
    /\ UNCHANGED clientVars
    /\ UNCHANGED storageVars
    /\ UNCHANGED auxVars

\* POST /api/quizzes
PostQuiz(body) ==
    /\ sent < MaxRecords
    /\ LET r == CreateQuiz(backend, CurrentStore, body)
       IN  IF ~ParsesInsert(body)
           THEN Served([op |-> "post", body |-> body], 400, <<CurrentStore, CurrentStore>>, 1)
           ELSE Served([op |-> "post", body |-> body],
                       IF r.threw THEN 500 ELSE 201, <<CurrentStore, r.st>>, 1)

\* PUT /api/quizzes/:id
PutQuiz(id, body) ==
    /\ sent < MaxRecords
    /\ LET r == UpdateQuiz(backend, CurrentStore, id, body)
       IN  Served([op |-> "put", id |-> id, body |-> body],
                  IF r.threw THEN 500 ELSE IF r.row = <<>> THEN 404 ELSE 200,
                  <<CurrentStore, r.st>>, 1)

\* DELETE /api/quizzes/:id
DeleteQuizRoute(id) ==
    /\ sent < MaxRecords
    /\ LET r == DeleteQuiz(backend, CurrentStore, id)
       IN  Served([op |-> "delete", id |-> id],
                  IF r.row THEN 200 ELSE 404, <<CurrentStore, r.st>>, 1)

\* POST /api/quizzes/sync: syncQuizSchema.parse(req.body) rejects the request
\* when any record of the array fails insertQuizSchema
SyncRoute(batch) ==
    /\ sent < MaxRecords
    /\ IF \E i \in 1..Len(batch) : ~ParsesInsert(batch[i])
       THEN Served([op |-> "sync", batch |-> batch], 400,
                   <<CurrentStore, CurrentStore>>, Len(batch))
       ELSE Served([op |-> "sync", batch |-> batch],
                   IF SyncThrows(backend, CurrentStore, batch) THEN 500 ELSE 200,
                   SyncStores(backend, CurrentStore, batch), Len(batch))

ServerNext ==
    \/ \E body \in Bodies : PostQuiz(body)
    \/ \E id \in 1..quizCurrentId, body \in PutBodies : PutQuiz(id, body)
    \/ \E id \in 1..quizCurrentId : DeleteQuizRoute(id)
    \/ \E batch \in Batches(MaxRecords - sent) : SyncRoute(batch)

----------------------------------------------------------------------------
(* localStorage and the two helpers.  A string is not spelled out: a        *)
(* serialized payload is the text [text, len] of `len` characters, a slice  *)
(* of it is [text, len, from, to], "__CHUNKED__N" is [chunked |-> N] and    *)
(* N.toString() is [count |-> N].                                           *)

Threshold == 2000000      \* jsonString.length < 2000000
chunkSize == 1000000      \* const chunkSize = 1000000
CleanupLimit == 20        \* for (let i = 0; i < 20; i++)

\* `${key}_chunks` and `${key}_chunk_${i}`
ChunksKey(key) == key \o "_chunks"
ChunkKey(key, i) == key \o "_chunk_" \o ToString(i)

\* a slice that is one character short
SubstringShort(json, from, to) ==
    [text |-> json.text, len |-> json.len,
     from |-> IF from < json.len THEN from ELSE json.len,
     to |-> IF to - 1 < json.len THEN to - 1 ELSE json.len]

\* text.substring(from, to)
Substring(json, from, to) ==
    [text |-> json.text, len |-> json.len,
     from |-> IF from < json.len THEN from ELSE json.len,
     to |-> IF to < json.len THEN to ELSE json.len]

\* a payload: the value it holds, the length of its JSON text, whether it
\* holds Date objects, and whether it is cyclic
Payload(name, len, dates, cyclic) ==
    [name |-> name, len |-> len, dates |-> dates, cyclic |-> cyclic]

\* JSON.stringify throws on a cyclic structure
StringifyThrows(data) == data.cyclic

\* JSON.stringify(data): a Date is written as its ISO string, so a payload
\* with Dates and the same payload with those strings have one text
Stringify(data) == [text |-> data.name, len |-> data.len]

\* JSON.parse of a whole text: the value, with strings where Dates were
Parse(json) == Payload(json.text, json.len, FALSE, FALSE)

\* JSON.parse(JSON.stringify(data))
Prepared(data) == Parse(Stringify(data))

\* a count that leaves the last, shorter slice out
ChunkCountFloor(len) == len \div chunkSize

\* Math.ceil(jsonString.length / chunkSize)
ChunkCount(len) == (len + chunkSize - 1) \div chunkSize

\* localStorage.getItem(name) === null
IsNull(store, name) == name \notin DOMAIN store

\* if (localStorage.getItem(name)): there and not the empty string
Truthy(store, name) ==
    /\ name \in DOMAIN store
    /\ Has(store[name], "from") => store[name].to > store[name].from

SetItem(store, name, value) ==
    [n \in (DOMAIN store) \cup {name} |-> IF n = name THEN value ELSE store[n]]

RemoveItems(store, names) == [n \in (DOMAIN store) \ names |-> store[n]]

\* the direct save: setItem(key, jsonString), then the clean-up of the chunks
\* of earlier saves, which stops at the first chunk that is not there
CleanedUpTo(store, key) ==
    Min({i \in 0..(CleanupLimit - 1) : ~Truthy(store, ChunkKey(key, i))} \cup {CleanupLimit})

DirectSave(store, key, jsonString) ==
    LET written == SetItem(store, key, jsonString)
        stale == {ChunkKey(key, i) : i \in 0..(CleanedUpTo(written, key) - 1)}
        meta == IF Truthy(written, ChunksKey(key)) THEN {ChunksKey(key)} ELSE {}
    IN  RemoveItems(written, stale \cup meta)

\* the chunked save makes chunks + 2 setItem calls, in this order: the chunk
\* count, chunk 0 .. chunk chunks-1, the sentinel.  The store after the first n:
ChunkedWrites(store, key, jsonString, n) ==
    LET chunks == ChunkCount(jsonString.len)
        names == (IF n >= 1 THEN {ChunksKey(key)} ELSE {})
                 \cup {ChunkKey(key, i) : i \in {j \in 0..(chunks - 1) : j + 2 <= n}}
                 \cup (IF n >= chunks + 2 THEN {key} ELSE {})
    IN  [name \in (DOMAIN store) \cup names |->
            IF name \notin names THEN store[name]
            ELSE IF name = ChunksKey(key) THEN [count |-> chunks]
            ELSE IF name = key THEN [chunked |-> chunks]
            ELSE LET i == CHOOSE j \in 0..(chunks - 1) : name = ChunkKey(key, j)
                 IN  Substring(jsonString, i * chunkSize, i * chunkSize + chunkSize)]

\* how many setItem calls a save of data makes when none fails
WritesOf(data) ==
    IF StringifyThrows(data) THEN 0
    ELSE IF data.len < Threshold THEN 1
    ELSE ChunkCount(data.len) + 2

\* a save without its try / catch: a throw reaches the caller
SaveResultNoCatch(store, key, data, failAt) ==
    IF StringifyThrows(data) \/ failAt \in 1..WritesOf(data)
    THEN [store |-> store, ok |-> FALSE, raised |-> TRUE]
    ELSE LET jsonString == Stringify(Prepared(data))
         IN  [store |-> IF jsonString.len < Threshold
                        THEN DirectSave(store, key, jsonString)
                        ELSE ChunkedWrites(store, key, jsonString, WritesOf(data)),
              ok |-> TRUE, raised |-> FALSE]

\* what saveToLocalStorage leaves and returns; failAt = n means the n-th
\* setItem throws (the quota is exceeded), 0 that none does.  Everything is
\* inside try / catch: a throw ends the save and false is returned
SaveResult(store, key, data, failAt) ==
    IF StringifyThrows(data)
    THEN [store |-> store, ok |-> FALSE, raised |-> FALSE]
    ELSE LET jsonString == Stringify(Prepared(data))
         IN  IF jsonString.len < Threshold
             THEN IF failAt = 1
                  THEN [store |-> store, ok |-> FALSE, raised |-> FALSE]
                  ELSE [store |-> DirectSave(store, key, jsonString),
                        ok |-> TRUE, raised |-> FALSE]
             ELSE IF failAt \in 1..WritesOf(data)
                  THEN [store |-> ChunkedWrites(store, key, jsonString, failAt - 1),
                        ok |-> FALSE, raised |-> FALSE]
                  ELSE [store |-> ChunkedWrites(store, key, jsonString, WritesOf(data)),
                        ok |-> TRUE, raised |-> FALSE]

\* jsonString after the loop of loadFromLocalStorage is one whole text
Whole(store, key, chunks) ==
    LET piece(i) == store[ChunkKey(key, i)]
    IN  /\ piece(0).from = 0
        /\ piece(chunks - 1).to = piece(chunks - 1).len
        /\ \A i \in 0..(chunks - 1) :
               /\ piece(i).text = piece(0).text
               /\ piece(i).len = piece(0).len
               /\ i > 0 => piece(i).from = piece(i - 1).to

\* the chunks of the loop are slices of one text: unless it is whole, what
\* they concatenate to is a strict prefix of a JSON text, which never parses
OneText(store, key, chunks) ==
    \A i \in 0..(chunks - 1) :
        /\ store[ChunkKey(key, i)].text = store[ChunkKey(key, 0)].text
        /\ store[ChunkKey(key, i)].len = store[ChunkKey(key, 0)].len

Outcome(value, error) == [value |-> value, raised |-> FALSE, error |-> error]

\* a value JSON.parse makes of chunks that are slices of different texts
Garbled == Payload("garbled", 0, FALSE, FALSE)

\* a load that, finding nothing under the key, probes for chunks
LoadOutcomesProbing(store, key, defaultValue) ==
    IF IsNull(store, key)
    THEN IF Truthy(store, ChunkKey(key, 0))
         THEN {Outcome(Garbled, "none")} ELSE {Outcome(defaultValue, "none")}
    ELSE IF Has(store[key], "chunked")
    THEN {Outcome(defaultValue, "Missing chunk")}
    ELSE {Outcome(Parse(store[key]), "none")}

\* a load that skips a missing chunk and parses what it has
LoadOutcomesPartial(store, key, defaultValue) ==
    IF IsNull(store, key) THEN {Outcome(defaultValue, "none")}
    ELSE IF Has(store[key], "chunked")
    THEN {Outcome(Garbled, "none")}
    ELSE {Outcome(Parse(store[key]), "none")}

\* what loadFromLocalStorage can return: the value, that nothing is raised
\* (try / catch around everything), and the error it logs.  Chunks that are
\* slices of different texts make JSON.parse throw or, when together they
\* read as JSON, give a value no save was given
LoadOutcomes(store, key, defaultValue) ==
    IF IsNull(store, key) THEN {Outcome(defaultValue, "none")}
    ELSE IF Has(store[key], "chunked")
    THEN LET chunks == IF Truthy(store, ChunksKey(key))
                       THEN store[ChunksKey(key)].count ELSE 0
         IN  IF chunks <= 0 THEN {Outcome(defaultValue, "Invalid chunks count")}
             ELSE IF \E i \in 0..(chunks - 1) : ~Truthy(store, ChunkKey(key, i))
             THEN {Outcome(defaultValue, "Missing chunk")}
             ELSE IF Whole(store, key, chunks)
             THEN {Outcome(Parse(Stringify(
                       Payload(store[ChunkKey(key, 0)].text, store[ChunkKey(key, 0)].len,
                               FALSE, FALSE))), "none")}
             ELSE IF OneText(store, key, chunks)
             THEN {Outcome(defaultValue, "SyntaxError")}
             ELSE {Outcome(defaultValue, "SyntaxError"), Outcome(Garbled, "none")}
    ELSE {Outcome(Parse(store[key]), "none")}

----------------------------------------------------------------------------
(* The client: the Quiz page.  The search box is empty; the list is the     *)
(* collection under the category filter, and a card's index is its position *)
(* in that list.                                                            *)
(* A question of the form is "" while any of its question, options or       *)
(* correct answer is blank.                                                 *)

MASTER_PASSWORD == "8387"

\* the form as useState and the resets after a save or an update set it
FreshForm(n) ==
    [id |-> Uuid(n), title |-> "", timer |-> 300, category |-> "General Knowledge",
     version |-> 1]

BlankQuestions == <<"">>

FilledIn(q) == q # ""

ClientInit ==
    /\ quizzes = <<>>
    /\ newQuiz = FreshForm(1)
    /\ newQuestions = BlankQuestions
    /\ quizToEdit = 0
    /\ quizToDelete = 0
    /\ passwordInput = ""
    /\ passwordDialogOpen = FALSE
    /\ deletePasswordDialogOpen = FALSE
    /\ isEditMode = FALSE
    /\ formIds = 1
    /\ selectedCategory = Null
    /\ lastHandler = [name |-> "none"]
    /\ quizzesBefore = <<>>
    /\ clickedCard = <<>>

\* a dialog is modal: the page behind it takes no input
NoDialog == ~passwordDialogOpen /\ ~deletePasswordDialogOpen

\* filteredQuizzes, by category (the search box is left empty)
Shown(quiz) == selectedCategory = Null \/ quiz.category = selectedCategory

FilteredQuizzes == SelectSeq(quizzes, Shown)

Ran(h) ==
    /\ lastHandler' = h
    /\ quizzesBefore' = quizzes
    /\ clickedCard' = IF h.name \in {"handleEditQuiz", "handleDeleteQuiz"} THEN h.card
                      ELSE IF h.name = "closeDialog" THEN <<>>
                      ELSE IF h.name = "handlePasswordSubmit" /\ h.accepted THEN <<>>
                      ELSE clickedCard
    /\ UNCHANGED selectedCategory
    /\ UNCHANGED serverVars
    /\ UNCHANGED storageVars
    /\ UNCHANGED auxVars

\* the collection as the payload of a save: it holds Dates (createdAt), and its
\* text is far below the chunking threshold
QuizzesPayload(qs) == Payload(qs, 500 * Len(qs), TRUE, FALSE)

\* useEffect(..., [quizzes]): after a handler that set quizzes, the page saves
\* them, unless the collection is empty
SaveQuizzesEffect(qs) ==
    IF Len(qs) = 0 THEN localStorage
    ELSE SaveResult(localStorage, "quizzes", QuizzesPayload(qs), 0).store

\* a handler that called setQuizzes, and the effect that follows it
RanAndSaved(h) ==
    /\ lastHandler' = h
    /\ quizzesBefore' = quizzes
    /\ clickedCard' = <<>>
    /\ UNCHANGED selectedCategory
    /\ localStorage' = SaveQuizzesEffect(quizzes')
    /\ UNCHANGED <<storageBefore, lastSave, lastLoad, saves>>
    /\ UNCHANGED serverVars
    /\ UNCHANGED auxVars

\* the inputs of the form: onChange of title, timer, password; handleQuestionChange
SetNewQuiz(field) ==
    /\ NoDialog
    /\ newQuiz' = Spread(newQuiz, field)
    /\ Ran([name |-> "onChange"])
    /\ UNCHANGED <<quizzes, newQuestions, quizToEdit, quizToDelete, passwordInput,
                   passwordDialogOpen, deletePasswordDialogOpen, isEditMode, formIds>>

HandleQuestionChange(q) ==
    /\ NoDialog
    /\ newQuestions' = <<q>>
    /\ Ran([name |-> "onChange"])
    /\ UNCHANGED <<quizzes, newQuiz, quizToEdit, quizToDelete, passwordInput,
                   passwordDialogOpen, deletePasswordDialogOpen, isEditMode, formIds>>

\* newQuiz.title.trim() === '' || newQuiz.timer <= 0, or no question left
FormRejected ==
    \/ newQuiz.title = ""
    \/ newQuiz.timer <= 0
    \/ SelectSeq(newQuestions, FilledIn) = <<>>

ResetForm ==
    /\ newQuiz' = FreshForm(formIds + 1)
    /\ formIds' = formIds + 1
    /\ newQuestions' = BlankQuestions

HandleSaveQuiz ==
    /\ NoDialog
    /\ ~isEditMode
    /\ Len(quizzes) < MaxQuizzes
    /\ formIds < MaxForms
    /\ IF FormRejected
       THEN /\ Ran([name |-> "handleSaveQuiz", accepted |-> FALSE])
            /\ UNCHANGED <<quizzes, newQuiz, newQuestions, formIds>>
       ELSE LET quizWithId ==
                    Spread(newQuiz,
                           [questions |-> SelectSeq(newQuestions, FilledIn),
                            version |-> IF VersionSet(newQuiz) THEN newQuiz.version ELSE 1])
            IN  /\ quizzes' = Append(quizzes, quizWithId)
                /\ ResetForm
                /\ RanAndSaved([name |-> "handleSaveQuiz", accepted |-> TRUE])
    /\ UNCHANGED <<quizToEdit, quizToDelete, passwordInput, passwordDialogOpen,
                   deletePasswordDialogOpen, isEditMode>>

\* the Edit button of the card at position index of filteredQuizzes
HandleEditQuiz(index) ==
    /\ NoDialog
    /\ index \in 1..Len(FilteredQuizzes)
    /\ quizToEdit' = index
    /\ passwordDialogOpen' = TRUE
    /\ Ran([name |-> "handleEditQuiz", card |-> FilteredQuizzes[index]])
    /\ UNCHANGED <<quizzes, newQuiz, newQuestions, quizToDelete, passwordInput,
                   deletePasswordDialogOpen, isEditMode, formIds>>

\* onChange of the password field of either dialog
SetPasswordInput(p) ==
    /\ ~NoDialog
    /\ passwordInput' = p
    /\ Ran([name |-> "onChange"])
    /\ UNCHANGED <<quizzes, newQuiz, newQuestions, quizToEdit, quizToDelete,
                   passwordDialogOpen, deletePasswordDialogOpen, isEditMode, formIds>>

\* the form handlePasswordSubmit loads from the quiz
EditForm(quiz) ==
    Spread([id |-> quiz.id, title |-> quiz.title, timer |-> quiz.timer,
            category |-> quiz.category,
            version |-> IF VersionSet(quiz) THEN quiz.version ELSE 1],
           IF Has(quiz, "password") THEN [password |-> quiz.password] ELSE <<>>)

PasswordOpens(quiz, userPassword) ==
    \/ Has(quiz, "password") /\ quiz.password # "" /\ userPassword = quiz.password
    \/ userPassword = MASTER_PASSWORD

HandlePasswordSubmit ==
    /\ passwordDialogOpen
    /\ quizToEdit # 0
    /\ IF PasswordOpens(quizzes[quizToEdit], passwordInput)
       THEN /\ passwordDialogOpen' = FALSE
            /\ passwordInput' = ""
            /\ newQuiz' = EditForm(quizzes[quizToEdit])
            /\ newQuestions' = quizzes[quizToEdit].questions
            /\ isEditMode' = TRUE
            /\ Ran([name |-> "handlePasswordSubmit", accepted |-> TRUE])
       ELSE /\ Ran([name |-> "handlePasswordSubmit", accepted |-> FALSE])
            /\ UNCHANGED <<passwordDialogOpen, passwordInput, newQuiz, newQuestions,
                           isEditMode>>
    /\ UNCHANGED <<quizzes, quizToEdit, quizToDelete, deletePasswordDialogOpen, formIds>>

\* prev.map((q, i) => i === quizToEdit ? { ...newQuiz, questions } : q)
UpdatedQuizzes(prev, index, form, questions) ==
    [i \in 1..Len(prev) |->
        IF i = index THEN Spread(form, [questions |-> questions]) ELSE prev[i]]

HandleUpdateQuiz ==
    /\ NoDialog
    /\ isEditMode
    /\ quizToEdit # 0
    /\ formIds < MaxForms
    /\ IF FormRejected
       THEN /\ Ran([name |-> "handleUpdateQuiz", accepted |-> FALSE, index |-> quizToEdit])
            /\ UNCHANGED <<quizzes, newQuiz, newQuestions, formIds, isEditMode, quizToEdit>>
       ELSE /\ quizzes' = UpdatedQuizzes(quizzes, quizToEdit, newQuiz,
                                         SelectSeq(newQuestions, FilledIn))
            /\ ResetForm
            /\ isEditMode' = FALSE
            /\ quizToEdit' = 0
            /\ RanAndSaved([name |-> "handleUpdateQuiz", accepted |-> TRUE, index |-> quizToEdit])
    /\ UNCHANGED <<quizToDelete, passwordInput, passwordDialogOpen, deletePasswordDialogOpen>>

\* the Delete button of the card at position index of filteredQuizzes
HandleDeleteQuiz(index) ==
    /\ NoDialog
    /\ index \in 1..Len(FilteredQuizzes)
    /\ quizToDelete' = index
    /\ passwordInput' = ""
    /\ deletePasswordDialogOpen' = TRUE
    /\ Ran([name |-> "handleDeleteQuiz", card |-> FilteredQuizzes[index]])
    /\ UNCHANGED <<quizzes, newQuiz, newQuestions, quizToEdit, passwordDialogOpen,
                   isEditMode, formIds>>

\* prev.filter((_, i) => i !== quizToDelete)
Without(prev, index) ==
    [i \in 1..(Len(prev) - (IF index \in 1..Len(prev) THEN 1 ELSE 0)) |->
        IF i < index THEN prev[i] ELSE prev[i + 1]]

\* a confirmation that takes any password
DeleteAllowedAnyPassword(userPassword) == TRUE

\* passwordInput === MASTER_PASSWORD
DeleteAllowed(userPassword) == userPassword = MASTER_PASSWORD

HandleDeleteQuizConfirm ==
    /\ deletePasswordDialogOpen
    /\ quizToDelete # 0
    /\ IF DeleteAllowed(passwordInput)
       THEN /\ quizzes' = Without(quizzes, quizToDelete)
            /\ deletePasswordDialogOpen' = FALSE
            /\ passwordInput' = ""
            /\ quizToDelete' = 0
            /\ RanAndSaved([name |-> "handleDeleteQuizConfirm", accepted |-> TRUE])
       ELSE /\ Ran([name |-> "handleDeleteQuizConfirm", accepted |-> FALSE])
            /\ UNCHANGED <<quizzes, deletePasswordDialogOpen, passwordInput, quizToDelete>>
    /\ UNCHANGED <<newQuiz, newQuestions, quizToEdit, passwordDialogOpen, isEditMode, formIds>>

\* onOpenChange(false) of the edit dialog; Cancel / onOpenChange(false) of the delete dialog
CloseDialog ==
    /\ ~NoDialog
    /\ passwordDialogOpen' = FALSE
    /\ deletePasswordDialogOpen' = FALSE
    /\ Ran([name |-> "closeDialog"])
    /\ UNCHANGED <<quizzes, newQuiz, newQuestions, quizToEdit, quizToDelete,
                   passwordInput, isEditMode, formIds>>

\* the parsed content of an import (file or pasted text): a quiz that carries
\* the id the page's first form drew, newer and with other content; the same
\* at version 1; and a quiz in the older format, without id and version
ImportRecords ==
    {[id |-> Uuid(1), title |-> "C", timer |-> 300, version |-> 2, questions |-> <<"q">>],
     [id |-> Uuid(1), title |-> "D", timer |-> 300, version |-> 1, questions |-> <<"q">>],
     [title |-> "A", category |-> "Science", questions |-> <<"q">>]}

\* the categories an import may name
Categories == {"General Knowledge", "Mathematics", "Science", "Reasoning"}

\* quizzes.some(existingQuiz => existingQuiz.title === quiz.title && ...)
AlreadyExists(prev, quiz) ==
    \E i \in 1..Len(prev) : Has(quiz, "title") /\ prev[i].title = quiz.title

\* the records of the import that pass the filter, in order
RECURSIVE NewQuizzes(_, _)
NewQuizzes(prev, importedQuizzes) ==
    IF importedQuizzes = <<>> THEN <<>>
    ELSE IF AlreadyExists(prev, Head(importedQuizzes))
         THEN NewQuizzes(prev, Tail(importedQuizzes))
         ELSE <<Head(importedQuizzes)>> \o NewQuizzes(prev, Tail(importedQuizzes))

\* how many of the first k records draw a uuidv4()
RECURSIVE DrawsIn(_, _)
DrawsIn(qs, k) ==
    IF k = 0 THEN 0
    ELSE DrawsIn(qs, k - 1)
         + (IF Has(qs[k], "id") /\ qs[k].id # "" THEN 0 ELSE 1)

\* newQuizzes.map(quiz => ({...quiz, id: quiz.id || uuidv4(), version: quiz.version || 1, ...}))
ValidatedQuizzes(newQuizzes, drawn) ==
    [k \in 1..Len(newQuizzes) |->
        LET quiz == newQuizzes[k]
        IN  Spread(quiz,
                [id |-> IF Has(quiz, "id") /\ quiz.id # "" THEN quiz.id
                        ELSE Uuid(drawn + DrawsIn(newQuizzes, k)),
                 version |-> IF VersionSet(quiz) THEN quiz.version ELSE 1,
                 title |-> IF Has(quiz, "title") /\ quiz.title # ""
                           THEN quiz.title ELSE "Imported Quiz",
                 category |-> IF Has(quiz, "category") /\ quiz.category \in Categories
                              THEN quiz.category ELSE "General Knowledge",
                 timer |-> IF Has(quiz, "timer") /\ quiz.timer # 0 THEN quiz.timer ELSE 300,
                 questions |-> IF Has(quiz, "questions") THEN quiz.questions ELSE <<>>])]

\* handleImportQuiz (file) and handleImportJson (pasted text), from the parsed
\* array on: both filter by title and description and append what is left
HandleImport(importedQuizzes) ==
    /\ NoDialog
    /\ Len(quizzes) + Len(importedQuizzes) <= MaxQuizzes
    /\ formIds + Len(importedQuizzes) <= MaxForms
    /\ LET newQuizzes == NewQuizzes(quizzes, importedQuizzes)
       IN  /\ quizzes' = quizzes \o ValidatedQuizzes(newQuizzes, formIds)
           /\ formIds' = formIds + DrawsIn(newQuizzes, Len(newQuizzes))
           /\ RanAndSaved([name |-> "handleImport", imported |-> importedQuizzes,
                   accepted |-> newQuizzes # <<>>])
    /\ UNCHANGED <<newQuiz, newQuestions, quizToEdit, quizToDelete, passwordInput,
                   passwordDialogOpen, deletePasswordDialogOpen, isEditMode>>

\* the category select above the list: "all" clears the filter
SetSelectedCategory(value) ==
    /\ NoDialog
    /\ selectedCategory' = IF value = "all" THEN Null ELSE value
    /\ lastHandler' = [name |-> "setSelectedCategory"]
    /\ quizzesBefore' = quizzes
    /\ UNCHANGED <<quizzes, newQuiz, newQuestions, quizToEdit, quizToDelete, passwordInput,
                   passwordDialogOpen, deletePasswordDialogOpen, isEditMode, formIds,
                   clickedCard>>
    /\ UNCHANGED <<serverVars, storageVars, auxVars>>

\* the arrays an import can carry
Imports == SeqsUpTo(ImportRecords, 2) \ {<<>>}

FormInputs == {[title |-> "A"], [password |-> "p"]}
PasswordInputs == {MASTER_PASSWORD, "p"}

ClientNext ==
    \/ \E field \in FormInputs : SetNewQuiz(field)
    \/ \E q \in {"", "q"} : HandleQuestionChange(q)
    \/ HandleSaveQuiz
    \/ \E index \in 1..Len(quizzes) : HandleEditQuiz(index)
    \/ \E p \in PasswordInputs : SetPasswordInput(p)
    \/ HandlePasswordSubmit
    \/ HandleUpdateQuiz
    \/ \E index \in 1..Len(quizzes) : HandleDeleteQuiz(index)
    \/ HandleDeleteQuizConfirm
    \/ CloseDialog
    \/ \E importedQuizzes \in Imports : HandleImport(importedQuizzes)

----------------------------------------------------------------------------
(* The persistence helpers as steps of their own. *)

StorageInit ==
    /\ localStorage = <<>>
    /\ storageBefore = <<>>
    /\ lastSave = [op |-> "none"]
    /\ lastLoad = [op |-> "none"]
    /\ saves = 0

\* loadFromLocalStorage('quizzes', [])
DefaultValue == Payload("[]", 2, FALSE, FALSE)

SaveToLocalStorage(key, data, failAt) ==
    /\ saves < MaxSaves
    /\ failAt <= WritesOf(data)
    /\ LET r == SaveResult(localStorage, key, data, failAt)
       IN  /\ localStorage' = r.store
           /\ lastSave' = [op |-> "save", key |-> key, data |-> data,
                           failAt |-> failAt, ok |-> r.ok, raised |-> r.raised,
                           allOk |-> r.ok /\ (lastSave.op = "save" => lastSave.allOk),
                           couldLoad |-> {o.value : o \in LoadOutcomes(localStorage, key,
                                                                       DefaultValue)}]
    /\ lastLoad' = [op |-> "none"]
    /\ storageBefore' = localStorage
    /\ saves' = saves + 1
    /\ UNCHANGED <<serverVars, clientVars, auxVars>>

LoadFromLocalStorage(key, defaultValue) ==
    /\ \E o \in LoadOutcomes(localStorage, key, defaultValue) :
           lastLoad' = [op |-> "load", key |-> key, defaultValue |-> defaultValue,
                        value |-> o.value, raised |-> o.raised, error |-> o.error]
    /\ storageBefore' = localStorage
    /\ UNCHANGED <<localStorage, lastSave, saves>>
    /\ UNCHANGED <<serverVars, clientVars, auxVars>>

StorageKeys == {"quizzes"}

\* the key the page saves under, and the payloads: below the threshold
\* (plain, with Dates, cyclic), just below it, at it (2 chunks), just above
\* it (3 chunks), 3,500,000 characters (4 chunks, two texts) and 21 chunks
Payloads ==
    {Payload("a", 500, FALSE, FALSE),
     Payload("a", 500, TRUE, FALSE),
     Payload("c", 500, FALSE, TRUE),
     Payload("b", 1999999, FALSE, FALSE),
     Payload("d", 2000000, FALSE, FALSE),
     Payload("e", 2000001, FALSE, FALSE),
     Payload("f", 3500000, FALSE, FALSE),
     Payload("h", 3500000, FALSE, FALSE),
     Payload("g", 20000001, FALSE, FALSE)}


\* which setItem call of a save the quota stops
FailPoints == 0..3

StorageNext ==
    \/ \E key \in StorageKeys, data \in Payloads, failAt \in FailPoints :
           SaveToLocalStorage(key, data, failAt)
    \/ \E key \in StorageKeys : LoadFromLocalStorage(key, DefaultValue)

----------------------------------------------------------------------------
(* The export encoding.  A string is a sequence of characters; the JSON     *)
(* strings are "{" body "}" with the body over "_", "a" (a hex digit), "g"  *)
(* (a letter that is no hex digit) and "u" (a character outside ASCII,      *)
(* two bytes "hi" "lo" in UTF-8).  btoa / atob and encodeURIComponent /     *)
(* decodeURIComponent are the library's exact inverses: [b64 |-> bytes]     *)
(* and [uri |-> string].                                                    *)

BodyChars == {"_", "a", "g", "u"}

JsonStrings == {<<"{">> \o body \o <<"}">> : body \in SeqsUpTo(BodyChars, MaxBody)}

\* new TextEncoder().encode(jsonString), as the binary string btoa is given
RECURSIVE Utf8Bytes(_)
Utf8Bytes(str) ==
    IF str = <<>> THEN <<>>
    ELSE (IF Head(str) = "u" THEN <<"hi", "lo">> ELSE <<Head(str)>>) \o Utf8Bytes(Tail(str))

\* new TextDecoder('utf-8').decode(bytes)
RECURSIVE Utf8Decode(_)
Utf8Decode(bytes) ==
    IF bytes = <<>> THEN <<>>
    ELSE IF Len(bytes) >= 2 /\ bytes[1] = "hi" /\ bytes[2] = "lo"
         THEN <<"u">> \o Utf8Decode(SubSeq(bytes, 3, Len(bytes)))
         ELSE IF bytes[1] \in {"hi", "lo"}
              THEN <<"?">> \o Utf8Decode(Tail(bytes))
              ELSE <<bytes[1]>> \o Utf8Decode(Tail(bytes))

\* encodeQuizData: "ENCODED" when TextEncoder is there, "UTF8" when it is not
\* or fails, "SIMPLE" from the outer catch
EncodedAs(jsonString, path) ==
    IF path = "ENCODED"
    THEN [prefix |-> "BMVQUIZ_ENCODED_", body |-> [b64 |-> Utf8Bytes(jsonString)]]
    ELSE IF path = "UTF8"
    THEN [prefix |-> "BMVQUIZ_UTF8_", body |-> [uri |-> jsonString]]
    ELSE [prefix |-> "BMVQUIZ_SIMPLE_", body |-> [uri |-> jsonString]]

\* /[\x80-\xFF]/.test(binaryString)
SeemsUtf8Encoded(binaryString) ==
    \E i \in 1..Len(binaryString) : binaryString[i] \in {"hi", "lo"}

IsHex(c) == c = "a"

\* the end of a match of /_([0-9a-fA-F]+?)_/ that starts at i, or 0
MatchEnd(str, i) ==
    IF str[i] # "_" THEN 0
    ELSE LET ends == {j \in (i + 2)..Len(str) :
                          /\ str[j] = "_"
                          /\ \A k \in (i + 1)..(j - 1) : IsHex(str[k])}
         IN  IF ends = {} THEN 0 ELSE Min(ends)

\* unescape('%' + hex): "%aa" is the one character "AA" (U+00AA), a single
\* digit is no escape
Unescape(hex) ==
    IF Len(hex) < 2 THEN <<"%">> \o hex
    ELSE <<"AA">> \o SubSeq(hex, 3, Len(hex))

\* binaryString.replace(/_([0-9a-fA-F]+?)_/g, ...), from position i on
RECURSIVE OldMethod(_, _)
OldMethod(str, i) ==
    IF i > Len(str) THEN <<>>
    ELSE IF MatchEnd(str, i) = 0 THEN <<str[i]>> \o OldMethod(str, i + 1)
    ELSE Unescape(SubSeq(str, i + 1, MatchEnd(str, i) - 1))
             \o OldMethod(str, MatchEnd(str, i) + 1)

\* startsWith('{') && endsWith('}')  (the model has no JSON array)
LooksLikeJson(str) == Len(str) >= 1 /\ str[1] = "{" /\ str[Len(str)] = "}"

\* the BMVQUIZ_ENCODED_ branch of decodeQuizData, after atob
DecodeStandard(binaryString) ==
    IF SeemsUtf8Encoded(binaryString) THEN Utf8Decode(binaryString)
    ELSE LET oldMethodResult == OldMethod(binaryString, 1)
         IN  IF LooksLikeJson(oldMethodResult) THEN oldMethodResult
             ELSE IF LooksLikeJson(binaryString) THEN binaryString
             ELSE oldMethodResult

\* decodeQuizData of what encodeQuizData returns
DecodedFrom(data) ==
    IF data.prefix = "BMVQUIZ_UTF8_" THEN data.body.uri
    ELSE IF data.prefix = "BMVQUIZ_ENCODED_" THEN DecodeStandard(data.body.b64)
    ELSE data.body.uri

CodecIdle ==
    /\ codecInput = <<>>
    /\ codecPath = "none"
    /\ codecData = <<>>
    /\ codecOutput = <<>>
    /\ codecStep = "idle"

CodecInit ==
    /\ codecInput \in JsonStrings
    /\ codecPath \in {"ENCODED", "UTF8", "SIMPLE"}
    /\ codecData = <<>>
    /\ codecOutput = <<>>
    /\ codecStep = "input"

EncodeQuizData ==
    /\ codecStep = "input"
    /\ codecData' = EncodedAs(codecInput, codecPath)
    /\ codecStep' = "encoded"
    /\ UNCHANGED <<codecInput, codecPath, codecOutput>>
    /\ UNCHANGED <<serverVars, clientVars, storageVars, pairVars, runVars, raceVars>>

DecodeQuizData ==
    /\ codecStep = "encoded"
    /\ codecOutput' = DecodedFrom(codecData)
    /\ codecStep' = "decoded"
    /\ UNCHANGED <<codecInput, codecPath, codecData>>
    /\ UNCHANGED <<serverVars, clientVars, storageVars, pairVars, runVars, raceVars>>

CodecNext == EncodeQuizData \/ DecodeQuizData

----------------------------------------------------------------------------
(* MemStorage and DbStorage given the same calls. *)

\* what a caller sees of a returned row: whether there is one, and its
\* uniqueId, content and version
Seen(row) ==
    IF DOMAIN row = {}
    THEN [found |-> FALSE, uniqueId |-> "", title |-> "", password |-> Null, version |-> 0]
    ELSE [found |-> TRUE, uniqueId |-> row.uniqueId, title |-> row.title,
          password |-> row.password, version |-> row.version]

\* what a method gave its caller: a rejection or the row it returned
Returned(r) == [threw |-> r.threw, row |-> Seen(r.row)]

\* the same for deleteQuiz, which returns a boolean
ReturnedFlag(r) ==
    [threw |-> r.threw,
     row |-> [found |-> r.row, uniqueId |-> "", title |-> "", password |-> Null, version |-> 0]]

\* the same for syncQuizzes: the last row pushed onto synced is not kept
ReturnedSync(b, st, quizzesToSync) ==
    [threw |-> SyncThrows(b, st, quizzesToSync), row |-> Seen(<<>>)]

PairInit ==
    /\ memStore = Store(<<>>, 1, 0)
    /\ dbStore = Store(<<>>, 1, 0)
    /\ memReturn = Returned(Result(Store(<<>>, 1, 0), <<>>, FALSE))
    /\ dbReturn = Returned(Result(Store(<<>>, 1, 0), <<>>, FALSE))
    /\ pairCall = [op |-> "none"]
    /\ pairCalls = 0

Called(call, mem, memRet, db, dbRet) ==
    /\ pairCalls < MaxCalls
    /\ pairCalls' = pairCalls + 1
    /\ pairCall' = call
    /\ memStore' = mem
    /\ memReturn' = memRet
    /\ dbStore' = db
    /\ dbReturn' = dbRet
    /\ UNCHANGED <<serverVars, clientVars, storageVars, codecVars, runVars, raceVars>>

BothCreateQuiz(quiz) ==
    LET m == CreateQuiz("mem", memStore, quiz)
        d == CreateQuiz("db", dbStore, quiz)
    IN  Called([op |-> "createQuiz", quiz |-> quiz], m.st, Returned(m), d.st, Returned(d))

BothUpdateQuiz(id, quizUpdate) ==
    LET m == UpdateQuiz("mem", memStore, id, quizUpdate)
        d == UpdateQuiz("db", dbStore, id, quizUpdate)
    IN  Called([op |-> "updateQuiz", id |-> id, quizUpdate |-> quizUpdate],
               m.st, Returned(m), d.st, Returned(d))

BothDeleteQuiz(id) ==
    LET m == DeleteQuiz("mem", memStore, id)
        d == DeleteQuiz("db", dbStore, id)
    IN  Called([op |-> "deleteQuiz", id |-> id], m.st, ReturnedFlag(m), d.st, ReturnedFlag(d))

BothSyncQuizzes(quizzesToSync) ==
    Called([op |-> "syncQuizzes", quizzesToSync |-> quizzesToSync],
           Last(SyncStores("mem", memStore, quizzesToSync)),
           ReturnedSync("mem", memStore, quizzesToSync),
           Last(SyncStores("db", dbStore, quizzesToSync)),
           ReturnedSync("db", dbStore, quizzesToSync))

PairNext ==
    \/ \E quiz \in ValidBodies : BothCreateQuiz(quiz)
    \/ \E id \in 1..2, quizUpdate \in PutBodies : BothUpdateQuiz(id, quizUpdate)
    \/ \E id \in 1..2 : BothDeleteQuiz(id)
    \/ \E quizzesToSync \in SeqsUpTo(ValidBodies, 2) \ {<<>>} : BothSyncQuizzes(quizzesToSync)

----------------------------------------------------------------------------
(* Taking a quiz: handleStartQuiz, the timer effect, the question buttons,   *)
(* finishQuiz and resetQuiz.                                                 *)

DefaultTimer == 300

\* the timers the form lets through: handleSaveQuiz and handleUpdateQuiz
\* reject newQuiz.timer <= 0
FormTimers == {t \in (-1)..MaxTimer : ~(t <= 0)}

\* the timers an import stores: timer: quiz.timer || 300
ImportedTimers == {IF t = 0 THEN DefaultTimer ELSE t : t \in (-1)..MaxTimer}

\* the quizzes the collection can hold, as far as taking them goes
StoredQuizzes ==
    [timer : FormTimers \cup ImportedTimers, questions : 1..2]

RunInit ==
    /\ currentQuiz = <<>>
    /\ currentQuestionIndex = 0
    /\ timer = 0
    /\ isQuizRunning = FALSE
    /\ showResults = FALSE
    /\ isQuizModalOpen = FALSE

RunStep == UNCHANGED <<serverVars, clientVars, storageVars, codecVars, pairVars, raceVars>>

\* the Start button of a card; the cooldown of ten minutes after lastTaken
\* may refuse it
HandleStartQuiz(quiz, cooldown) ==
    /\ ~isQuizModalOpen
    /\ IF cooldown
       THEN UNCHANGED runVars
       ELSE /\ currentQuiz' = quiz
            /\ currentQuestionIndex' = 0
            /\ timer' = quiz.timer
            /\ isQuizRunning' = TRUE
            /\ showResults' = FALSE
            /\ isQuizModalOpen' = TRUE
    /\ RunStep

\* finishQuiz: the attempt it adds to the quiz's history is not kept here
FinishQuiz ==
    /\ isQuizRunning' = FALSE
    /\ showResults' = TRUE
    /\ UNCHANGED <<currentQuiz, currentQuestionIndex, timer, isQuizModalOpen>>

\* the timer effect while isQuizRunning && timer > 0: the interval's tick
TimerTick ==
    /\ isQuizRunning
    /\ timer > 0
    /\ timer' = timer - 1
    /\ UNCHANGED <<currentQuiz, currentQuestionIndex, isQuizRunning, showResults,
                   isQuizModalOpen>>
    /\ RunStep

\* the timer effect when timer === 0 && isQuizRunning
TimerExpired ==
    /\ isQuizRunning
    /\ ~(timer > 0)
    /\ timer = 0
    /\ FinishQuiz
    /\ RunStep

PreviousQuestion ==
    /\ isQuizRunning
    /\ IF currentQuestionIndex > 0
       THEN currentQuestionIndex' = currentQuestionIndex - 1
       ELSE UNCHANGED currentQuestionIndex
    /\ UNCHANGED <<currentQuiz, timer, isQuizRunning, showResults, isQuizModalOpen>>
    /\ RunStep

NextQuestion ==
    /\ isQuizRunning
    /\ IF currentQuestionIndex < currentQuiz.questions - 1
       THEN /\ currentQuestionIndex' = currentQuestionIndex + 1
            /\ UNCHANGED <<currentQuiz, timer, isQuizRunning, showResults, isQuizModalOpen>>
       ELSE FinishQuiz
    /\ RunStep

\* the Close button of the results
ResetQuiz ==
    /\ showResults
    /\ currentQuiz' = <<>>
    /\ currentQuestionIndex' = 0
    /\ timer' = 0
    /\ isQuizRunning' = FALSE
    /\ showResults' = FALSE
    /\ isQuizModalOpen' = FALSE
    /\ RunStep

RunNext ==
    \/ \E quiz \in StoredQuizzes, cooldown \in BOOLEAN : HandleStartQuiz(quiz, cooldown)
    \/ TimerTick
    \/ TimerExpired
    \/ PreviousQuestion
    \/ NextQuestion
    \/ ResetQuiz

----------------------------------------------------------------------------
(* DbStorage.updateQuiz and the loop body of DbStorage.syncQuizzes, one      *)
(* await at a time.  The table holds the quiz "x" that a createQuiz stored.  *)

Idle == [pc |-> "idle", kind |-> "none", id |-> 0, body |-> <<>>, newVersion |-> 0]

RaceInit ==
    /\ table = DbCreateQuiz(Store(<<>>, 1, 0),
                            [uniqueId |-> "x", title |-> "A", version |-> 1]).st.coll
    /\ requests = [r \in 1..MaxRequests |-> Idle]
    /\ applied = 0

RaceStep == UNCHANGED <<serverVars, clientVars, storageVars, codecVars, pairVars, runVars>>

At(r, req) == [requests EXCEPT ![r] = req]

\* PUT /api/quizzes/:id reaches storage.updateQuiz(id, quizData)
StartUpdate(r, id, quizUpdate) ==
    /\ requests[r].pc = "idle"
    /\ requests' = At(r, [pc |-> "read", kind |-> "update", id |-> id,
                          body |-> quizUpdate, newVersion |-> 0])
    /\ UNCHANGED <<table, applied>>
    /\ RaceStep

\* POST /api/quizzes/sync reaches the loop of storage.syncQuizzes
StartSync(r, quizToSync) ==
    /\ requests[r].pc = "idle"
    /\ requests' = At(r, [pc |-> "lookup", kind |-> "sync", id |-> 0,
                          body |-> quizToSync, newVersion |-> 0])
    /\ UNCHANGED <<table, applied>>
    /\ RaceStep

\* const existingQuiz = await this.getQuizByUniqueId(quizToSync.uniqueId), and
\* the branch taken on it
SyncLookup(r) ==
    /\ requests[r].pc = "lookup"
    /\ LET quizToSync == requests[r].body
           existingQuiz == GetQuizByUniqueId(table, quizToSync.uniqueId)
       IN  IF IdsWithUniqueId(table, quizToSync.uniqueId) = {}
           THEN /\ table' = DbCreateQuiz(Store(table, Len(table) + 1, 0), quizToSync).st.coll
                /\ requests' = At(r, [requests[r] EXCEPT !.pc = "done"])
           ELSE /\ table' = table
                /\ requests' = At(r, [requests[r] EXCEPT
                                        !.pc = IF SyncAccepts(existingQuiz, quizToSync)
                                               THEN "read" ELSE "done",
                                        !.id = existingQuiz.id])
    /\ UNCHANGED applied
    /\ RaceStep

\* let currentQuiz = await this.getQuiz(id), and the newVersion computed from it
ReadRow(r) ==
    /\ requests[r].pc = "read"
    /\ requests' = At(r, IF requests[r].id \in DOMAIN table
                         THEN [requests[r] EXCEPT
                                 !.pc = "write",
                                 !.newVersion = BumpedVersion(table[requests[r].id])]
                         ELSE [requests[r] EXCEPT !.pc = "done"])
    /\ UNCHANGED <<table, applied>>
    /\ RaceStep

\* await this.db.update(quizzes).set({ ...quizUpdate, version: newVersion })
\*     .where(eq(quizzes.id, id)).returning()
WriteRow(r) ==
    /\ requests[r].pc = "write"
    /\ LET id == requests[r].id
           set == Spread(requests[r].body, [version |-> requests[r].newVersion])
       IN  table' = MapSet(table, id, Spread(table[id], set))
    /\ requests' = At(r, [requests[r] EXCEPT !.pc = "done"])
    /\ applied' = applied + 1
    /\ RaceStep

RaceNext ==
    \/ \E r \in 1..MaxRequests, quizUpdate \in {[title |-> "A"], [title |-> "B"]} :
           StartUpdate(r, 1, quizUpdate)
    \/ \E r \in 1..MaxRequests, quizToSync \in {b \in ValidBodies : b.uniqueId = "x"} :
           StartSync(r, quizToSync)
    \/ \E r \in 1..MaxRequests : SyncLookup(r)
    \/ \E r \in 1..MaxRequests : ReadRow(r)
    \/ \E r \in 1..MaxRequests : WriteRow(r)

----------------------------------------------------------------------------
Init ==
    /\ ServerInit /\ ClientInit /\ StorageInit
    /\ CodecIdle /\ PairInit /\ RunInit /\ RaceInit

\* the server under requests
Spec == Init /\ [][ServerNext]_vars

\* the Quiz page under its user (the server takes no request meanwhile, so
\* which storage it runs on makes no difference to the page)
InitClient == Init /\ backend = "mem"

SpecClient == InitClient /\ [][ClientNext]_vars

\* the cards of the list under the category filter: quizzes come in by
\* import, and are edited and deleted from their cards
CardsNext ==
    \/ \E value \in {"all", "Science"} : SetSelectedCategory(value)
    \/ \E importedQuizzes \in Imports : HandleImport(importedQuizzes)
    \/ \E index \in 1..Len(quizzes) : HandleEditQuiz(index)
    \/ \E p \in PasswordInputs : SetPasswordInput(p)
    \/ HandlePasswordSubmit
    \/ HandleUpdateQuiz
    \/ \E index \in 1..Len(quizzes) : HandleDeleteQuiz(index)
    \/ HandleDeleteQuizConfirm
    \/ CloseDialog

SpecCards == InitClient /\ [][CardsNext]_vars

\* the two password dialogs: quizzes come in by import, their cards open the
\* edit dialog and the delete dialog, which share the password field
DialogsNext ==
    \/ \E value \in {"all", "Science"} : SetSelectedCategory(value)
    \/ \E importedQuizzes \in Imports : HandleImport(importedQuizzes)
    \/ \E index \in 1..Len(quizzes) : HandleEditQuiz(index)
    \/ \E p \in PasswordInputs : SetPasswordInput(p)
    \/ HandlePasswordSubmit
    \/ \E index \in 1..Len(quizzes) : HandleDeleteQuiz(index)
    \/ HandleDeleteQuizConfirm
    \/ CloseDialog

SpecDialogs == InitClient /\ [][DialogsNext]_vars

\* the persistence helpers under any sequence of saves and loads
SpecStorage == InitClient /\ [][StorageNext]_vars

\* the export encoding applied to each JSON string of the model
InitCodec ==
    /\ ServerInit /\ backend = "mem" /\ ClientInit /\ StorageInit
    /\ CodecInit /\ PairInit /\ RunInit /\ RaceInit

SpecCodec == InitCodec /\ [][CodecNext]_vars

\* the two storage classes under the same sequence of calls
SpecPair == InitClient /\ [][PairNext]_vars

\* DbStorage under requests that overlap
SpecRace == InitClient /\ [][RaceNext]_vars

\* taking quizzes; the browser keeps the interval and the effects running,
\* the user may leave the question buttons alone
SpecRun ==
    InitClient /\ [][RunNext]_vars /\ WF_vars(TimerTick) /\ WF_vars(TimerExpired)

----------------------------------------------------------------------------
(* What the claims speak about. *)

\* the content of a stored row, and the content a request body carries (a
\* field the body does not carry is a field without a value)
Content(row) == [title |-> row.title, password |-> row.password]

ContentOf(body) ==
    [title |-> body.title,
     password |-> IF Has(body, "password") THEN body.password ELSE Null]

\* the version a body carries, 0 when it carries none
VersionOf(o) == IF Has(o, "version") THEN o.version ELSE 0

Max(a, b) == IF a >= b THEN a ELSE b

\* the last request was a sync whose loop ran to its end
SyncDone == lastCall.op = "sync" /\ response = 200

\* the turns of that loop: turn i takes lastCall.batch[i] from hist[i] to hist[i+1]
Turns == 1..Len(lastCall.batch)

Before(i) == hist[i].coll
After(i) == hist[i + 1].coll
Incoming(i) == lastCall.batch[i]

\* the rows of the same uniqueId as the incoming record of turn i
Matching(i) == IdsWithUniqueId(Before(i), Incoming(i).uniqueId)

\* turn i found a stored row and took the incoming record over it
Accepted(i) ==
    /\ Matching(i) # {}
    /\ SyncAccepts(GetQuizByUniqueId(Before(i), Incoming(i).uniqueId), Incoming(i))

\* the row turn i looked up
Existing(i) == GetQuizByUniqueId(Before(i), Incoming(i).uniqueId)

----------------------------------------------------------------------------
(* C1: in syncQuizzes, when the incoming record of a turn has the uniqueId  *)
(* of a stored row, both versions are set and the stored version is the     *)
(* greater, the turn leaves the store exactly as it was: the row keeps its  *)
(* content and version and the incoming record is discarded.                *)
C1_OlderIncomingDiscarded ==
    SyncDone =>
        \A i \in Turns : \A id \in Matching(i) :
            (/\ VersionSet(Before(i)[id])
             /\ VersionSet(Incoming(i))
             /\ Before(i)[id].version > Incoming(i).version)
            => After(i) = Before(i)

\* the same, for the row the loop looks up (getQuizByUniqueId)
C1_OlderIncomingDiscardedForFound ==
    SyncDone =>
        \A i \in Turns :
            (/\ Matching(i) # {}
             /\ VersionSet(Existing(i))
             /\ VersionSet(Incoming(i))
             /\ Existing(i).version > Incoming(i).version)
            => After(i) = Before(i)

----------------------------------------------------------------------------
(* C2: when the incoming record of a turn has a strictly greater version    *)
(* than the stored row of the same uniqueId, the row's content becomes the  *)
(* incoming content and its version ends strictly greater than it was; and  *)
(* over createQuiz, updateQuiz and syncQuizzes calls the version of a row   *)
(* never decreases.                                                         *)
VersionsNeverDecrease ==
    lastCall.op \in {"post", "put", "sync"} =>
        \A id \in DOMAIN hist[1].coll :
            /\ id \in DOMAIN quizCollection
            /\ quizCollection[id].version >= hist[1].coll[id].version

NewerIncomingTaken(i) ==
    (/\ Matching(i) # {}
     /\ VersionSet(Existing(i))
     /\ VersionSet(Incoming(i))
     /\ Incoming(i).version > Existing(i).version)
    => /\ Existing(i).id \in DOMAIN After(i)
       /\ Content(After(i)[Existing(i).id]) = ContentOf(Incoming(i))
       /\ After(i)[Existing(i).id].version > Existing(i).version

C2_NewerIncomingWinsVersionGrows ==
    /\ SyncDone => \A i \in Turns : NewerIncomingTaken(i)
    /\ VersionsNeverDecrease

(* C3: when the incoming record of a turn has the uniqueId and the version  *)
(* of the stored row, the incoming record wins: the row's content is        *)
(* replaced by the incoming content.                                        *)
C3_TieIncomingWins ==
    SyncDone =>
        \A i \in Turns :
            (/\ Matching(i) # {}
             /\ VersionSet(Existing(i))
             /\ VersionSet(Incoming(i))
             /\ Incoming(i).version = Existing(i).version)
            => /\ Existing(i).id \in DOMAIN After(i)
               /\ Content(After(i)[Existing(i).id]) = ContentOf(Incoming(i))

(* C4: an incoming record whose uniqueId matches no stored row is inserted  *)
(* as exactly one new row that keeps the incoming uniqueId, or gets a fresh *)
(* non-empty one when the incoming uniqueId is empty; and no stored row     *)
(* ever has an empty uniqueId.                                              *)
InsertedAsOne(i) ==
    Matching(i) = {} =>
        \E id \in (DOMAIN After(i)) \ (DOMAIN Before(i)) :
            /\ DOMAIN After(i) = (DOMAIN Before(i)) \cup {id}
            /\ \A j \in DOMAIN Before(i) : After(i)[j] = Before(i)[j]
            /\ After(i)[id].uniqueId # ""
            /\ Incoming(i).uniqueId # "" => After(i)[id].uniqueId = Incoming(i).uniqueId
            /\ Incoming(i).uniqueId = "" => IdsWithUniqueId(Before(i), After(i)[id].uniqueId) = {}

NoEmptyUniqueId == \A id \in DOMAIN quizCollection : quizCollection[id].uniqueId # ""

C4_InsertKeepsOrAssignsUniqueId ==
    /\ SyncDone => \A i \in Turns : InsertedAsOne(i)
    /\ NoEmptyUniqueId

\* the part of C4 that is about what syncQuizzes inserts
C4_SyncInsertsOneRowWithUniqueId == SyncDone => \A i \in Turns : InsertedAsOne(i)

(* C5: a sync request leaves every stored row whose uniqueId does not occur *)
(* in the incoming batch unchanged: still there, same content, same version.*)
BatchUniqueIds ==
    {lastCall.batch[i].uniqueId :
        i \in {j \in 1..Len(lastCall.batch) : Has(lastCall.batch[j], "uniqueId")}}

C5_SyncLeavesOtherRows ==
    lastCall.op = "sync" =>
        \A id \in DOMAIN hist[1].coll :
            hist[1].coll[id].uniqueId \notin BatchUniqueIds
            => /\ id \in DOMAIN quizCollection
               /\ quizCollection[id] = hist[1].coll[id]

\* a sync that wrote to the store while a row of another uniqueId was in it
C5_Witness ==
    /\ SyncDone
    /\ quizCollection # hist[1].coll
    /\ \E id \in DOMAIN hist[1].coll : hist[1].coll[id].uniqueId \notin BatchUniqueIds

----------------------------------------------------------------------------
(* C6: a sync request whose batch holds a malformed record among valid ones *)
(* is not rejected as a whole: every valid record is merged, so the store   *)
(* ends as syncQuizzes leaves it on the valid records of the batch.         *)
SomeMalformed == \E i \in 1..Len(lastCall.batch) : ~ParsesInsert(lastCall.batch[i])
SomeValid == \E i \in 1..Len(lastCall.batch) : ParsesInsert(lastCall.batch[i])

C6_ValidRecordsMergedDespiteMalformed ==
    (lastCall.op = "sync" /\ SomeMalformed /\ SomeValid) =>
        /\ response # 400
        /\ quizCollection =
               Last(SyncStores(backend, hist[1], SelectSeq(lastCall.batch, ParsesInsert))).coll

(* C7: when a turn of syncQuizzes takes the incoming record over a stored   *)
(* row, the row's content afterwards is exactly the incoming content: no    *)
(* field of the previous row survives that the incoming record lacks.       *)
C7_AcceptedContentIsWholeRecord ==
    SyncDone =>
        \A i \in Turns :
            Accepted(i) =>
                /\ Existing(i).id \in DOMAIN After(i)
                /\ Content(After(i)[Existing(i).id]) = ContentOf(Incoming(i))

(* C8: when a turn of syncQuizzes replaces a stored row e by an incoming    *)
(* record r, the stored version afterwards is max(e.version, r.version) + 1 *)
(* or exactly r.version, and so never smaller than r.version.               *)
C8_VersionAfterReplace ==
    SyncDone =>
        \A i \in Turns :
            Accepted(i) =>
                LET e == Existing(i)
                    r == Incoming(i)
                    v == After(i)[e.id].version
                IN  /\ v \in {Max(e.version, VersionOf(r)) + 1, VersionOf(r)}
                    /\ v >= VersionOf(r)

(* C10: no two stored rows have the same uniqueId, whatever createQuiz,     *)
(* updateQuiz, deleteQuiz and syncQuizzes calls were made.                  *)
C10_UniqueIdsDistinct ==
    \A i, j \in DOMAIN quizCollection :
        quizCollection[i].uniqueId = quizCollection[j].uniqueId => i = j

----------------------------------------------------------------------------
(* C9: in the client, every accepted edit of an existing quiz                *)
(* (handleUpdateQuiz after handlePasswordSubmit loaded it into the form)     *)
(* leaves the quiz with its version before the edit plus 1.                  *)
C9_EditIncrementsVersion ==
    (lastHandler.name = "handleUpdateQuiz" /\ lastHandler.accepted) =>
        /\ lastHandler.index \in 1..Len(quizzes)
        /\ quizzes[lastHandler.index].version
               = quizzesBefore[lastHandler.index].version + 1

----------------------------------------------------------------------------
(* C11: once a record is created its identifier never changes: no accepted  *)
(* PUT /api/quizzes/:id, no sync and no client edit changes the uniqueId /  *)
(* id of an existing record.                                                *)
ServerKeepsUniqueId ==
    lastCall.op \in {"put", "sync"} =>
        \A id \in (DOMAIN hist[1].coll) \cap (DOMAIN quizCollection) :
            /\ quizCollection[id].id = id
            /\ quizCollection[id].uniqueId = hist[1].coll[id].uniqueId

ClientEditKeepsId ==
    (lastHandler.name = "handleUpdateQuiz" /\ lastHandler.accepted) =>
        \A i \in (1..Len(quizzes)) \cap (1..Len(quizzesBefore)) :
            quizzes[i].id = quizzesBefore[i].id

C11_IdentifierNeverChanges == ServerKeepsUniqueId /\ ClientEditKeepsId

\* the part of C11 that is about syncQuizzes alone
C11_SyncKeepsUniqueId ==
    lastCall.op = "sync" =>
        \A id \in (DOMAIN hist[1].coll) \cap (DOMAIN quizCollection) :
            quizCollection[id].uniqueId = hist[1].coll[id].uniqueId

----------------------------------------------------------------------------
(* C12: client import reconciles by id and version: an imported record with *)
(* the id of a local record and a version greater than or equal to the      *)
(* local one replaces the local record's content; one with a lower version  *)
(* is discarded (the collection stays as it was).                           *)
ImportedOne == lastHandler.name = "handleImport" /\ Len(lastHandler.imported) = 1

C12_ImportReconcilesByIdAndVersion ==
    ImportedOne =>
        LET r == lastHandler.imported[1]
        IN  \A i \in 1..Len(quizzesBefore) :
                (Has(r, "id") /\ quizzesBefore[i].id = r.id) =>
                    IF r.version >= quizzesBefore[i].version
                    THEN /\ Len(quizzes) = Len(quizzesBefore)
                         /\ quizzes[i].id = r.id
                         /\ quizzes[i].title = r.title
                    ELSE quizzes = quizzesBefore

----------------------------------------------------------------------------
(* C13: deleteQuiz removes the row entirely, with no tombstone: after a     *)
(* successful delete the row is gone and the other rows are as they were,   *)
(* and a later sync whose batch carries the uniqueId of a deleted row, at   *)
(* any version, inserts the record again as a new row when no row of that   *)
(* uniqueId is stored.                                                      *)
DeleteRemovesRow ==
    (lastCall.op = "delete" /\ response = 200) =>
        /\ lastCall.id \in DOMAIN hist[1].coll
        /\ quizCollection = MapDelete(hist[1].coll, lastCall.id)

\* turn i brings back a deleted uniqueId that no stored row has
BringsBack(i) ==
    /\ Matching(i) = {}
    /\ \E d \in deleted : d.uniqueId = Incoming(i).uniqueId

Recreated(i) ==
    \E id \in (DOMAIN After(i)) \ (DOMAIN Before(i)) :
        /\ DOMAIN After(i) = (DOMAIN Before(i)) \cup {id}
        /\ Content(After(i)[id]) = ContentOf(Incoming(i))
        /\ Incoming(i).uniqueId # "" => After(i)[id].uniqueId = Incoming(i).uniqueId

C13_DeletedReappearsOnSync ==
    /\ DeleteRemovesRow
    /\ SyncDone => \A i \in Turns : BringsBack(i) => Recreated(i)

\* a sync brought back a deleted record at a version lower than the deleted one
C13_Witness ==
    /\ SyncDone
    /\ \E i \in Turns :
           /\ BringsBack(i)
           /\ \E d \in deleted :
                  /\ d.uniqueId = Incoming(i).uniqueId
                  /\ VersionSet(Incoming(i))
                  /\ Incoming(i).version < d.version
           /\ Recreated(i)

----------------------------------------------------------------------------
(* What the claims about the persistence helpers speak about. *)

\* the last call was a save that returned true
Saved == lastSave.op = "save" /\ lastSave.ok

\* the state right after a save: no load was made since
JustSaved == lastSave.op = "save" /\ lastLoad.op = "none"

\* the last save was followed by a load of the same key
LoadedAfterSave == Saved /\ lastLoad.op = "load" /\ lastLoad.key = lastSave.key

\* the largest chunk count a payload of the model has
MostChunks ==
    CHOOSE n \in {ChunkCount(p.len) : p \in Payloads} :
        \A m \in {ChunkCount(p.len) : p \in Payloads} : m <= n

\* the indices of the chunk entries stored for key
ChunkEntries(store, key) == {i \in 0..MostChunks : ChunkKey(key, i) \in DOMAIN store}

(* C14: round trip: after a successful saveToLocalStorage(key, payload),    *)
(* loadFromLocalStorage(key, default) returns a value equal to the payload, *)
(* for every serializable payload and whatever earlier saves stored.        *)
C14_RoundTripReturnsPayload ==
    LoadedAfterSave =>
        /\ ~lastLoad.raised
        /\ lastLoad.value = lastSave.data

(* C14, amended: the load returns JSON.parse(JSON.stringify(payload)): the  *)
(* payload itself when it holds JSON values only, and the payload with ISO  *)
(* strings in place of its Date objects otherwise.                          *)
C14_RoundTripReturnsPreparedPayload ==
    LoadedAfterSave =>
        /\ ~lastLoad.raised
        /\ lastLoad.error = "none"
        /\ lastLoad.value = Prepared(lastSave.data)
        /\ ~lastSave.data.dates => lastLoad.value = lastSave.data

\* a chunked save over the chunks of a larger one, loaded back
C14_Witness ==
    /\ LoadedAfterSave
    /\ lastSave.data.len >= Threshold
    /\ \E i \in ChunkEntries(localStorage, lastSave.key) : i >= ChunkCount(lastSave.data.len)
    /\ lastLoad.value = lastSave.data

(* C15: a successful save stores the serialized string directly under the   *)
(* key exactly when its length is below 2,000,000; otherwise it leaves      *)
(* N = ceil(length / 1,000,000) chunks 0..N-1 that concatenate to the       *)
(* string, a chunk count of N and a sentinel under the key carrying N.      *)
CeilOfLength(len) ==
    CHOOSE n \in 0..(len \div chunkSize + 1) :
        n * chunkSize >= len /\ (n - 1) * chunkSize < len

C15_DirectBelowThresholdElseChunked ==
    Saved =>
        LET key == lastSave.key
            len == lastSave.data.len
            N == CeilOfLength(len)
        IN  IF len < 2000000
            THEN localStorage[key] = [text |-> lastSave.data.name, len |-> len]
            ELSE /\ localStorage[key] = [chunked |-> N]
                 /\ localStorage[ChunksKey(key)] = [count |-> N]
                 /\ \A i \in 0..(N - 1) :
                        /\ ChunkKey(key, i) \in DOMAIN localStorage
                        /\ localStorage[ChunkKey(key, i)].text = lastSave.data.name
                        /\ localStorage[ChunkKey(key, i)].from = i * 1000000
                        /\ localStorage[ChunkKey(key, i)].to =
                               (IF i = N - 1 THEN len ELSE (i + 1) * 1000000)

\* the 3,500,000 character payload was saved as 4 chunks
C15_Witness ==
    /\ Saved
    /\ lastSave.data.len = 3500000
    /\ localStorage[lastSave.key] = [chunked |-> 4]
    /\ {0, 1, 2, 3} \subseteq ChunkEntries(localStorage, lastSave.key)

(* C16: after a direct save under a key, no chunk entry and no chunk-count  *)
(* entry of that key remains, however many chunks earlier saves wrote.      *)
C16_DirectSaveLeavesNoChunks ==
    (Saved /\ lastSave.data.len < Threshold) =>
        /\ ChunkEntries(localStorage, lastSave.key) = {}
        /\ ChunksKey(lastSave.key) \notin DOMAIN localStorage

\* the same, when no earlier save wrote more chunks than the clean-up visits
C16_DirectSaveCleansUpToLimit ==
    (Saved /\ lastSave.data.len < Threshold) =>
        /\ \A i \in ChunkEntries(localStorage, lastSave.key) : i >= CleanupLimit
        /\ ChunksKey(lastSave.key) \notin DOMAIN localStorage

(* C17: after any sequence of successful saves under one key, the chunk     *)
(* entries of the key are exactly 0..N-1 for the recorded chunk count N,    *)
(* and none when the last save was direct.                                  *)
C17_ChunksMatchRecordedCount ==
    (lastSave.op = "save" /\ lastSave.allOk) =>
        ChunkEntries(localStorage, lastSave.key) =
            (IF ChunksKey(lastSave.key) \in DOMAIN localStorage
             THEN 0..(localStorage[ChunksKey(lastSave.key)].count - 1)
             ELSE {})

(* C18: loadFromLocalStorage(key, default) returns default, raises nothing  *)
(* and writes nothing when no entry exists under key.                       *)
C18_MissingKeyReturnsDefault ==
    (lastLoad.op = "load" /\ IsNull(storageBefore, lastLoad.key)) =>
        /\ lastLoad.value = lastLoad.defaultValue
        /\ ~lastLoad.raised
        /\ localStorage = storageBefore

\* a load of the key while only chunk entries of it are stored
C18_Witness ==
    /\ lastLoad.op = "load"
    /\ IsNull(storageBefore, lastLoad.key)
    /\ ChunkEntries(storageBefore, lastLoad.key) # {}
    /\ lastLoad.value = lastLoad.defaultValue

(* C19: when the entry under key is the chunked sentinel and a chunk with   *)
(* an index below the recorded chunk count is missing, the load fails with  *)
(* a logged chunk error and gives default: never a value assembled from the *)
(* chunks that are there.                                                   *)
RecordedCounts(store, key) ==
    {store[key].chunked}
        \cup (IF ChunksKey(key) \in DOMAIN store THEN {store[ChunksKey(key)].count} ELSE {})

ChunkMissing(store, key) ==
    /\ ~IsNull(store, key)
    /\ Has(store[key], "chunked")
    /\ \E N \in RecordedCounts(store, key) :
           \E i \in 0..(N - 1) : ChunkKey(key, i) \notin DOMAIN store

SaveFailed ==
    \/ StringifyThrows(lastSave.data)
    \/ lastSave.failAt \in 1..WritesOf(lastSave.data)

C20_SaveNeverRaises ==
    JustSaved =>
        /\ ~lastSave.raised
        /\ lastSave.ok = ~SaveFailed
        /\ StringifyThrows(lastSave.data) => localStorage = storageBefore

\* a payload that does not serialize, saved over what earlier saves left
C20_Witness ==
    /\ JustSaved
    /\ StringifyThrows(lastSave.data)
    /\ ~lastSave.ok
    /\ DOMAIN storageBefore # {}
    /\ localStorage = storageBefore

----------------------------------------------------------------------------
(* C21: after every change to the client's quiz collection (create, edit,   *)
(* import, delete, also the delete of the last quiz) the collection is      *)
(* saved: a load from localStorage yields the current collection.           *)
LoadedQuizzes ==
    {o.value.name : o \in LoadOutcomes(localStorage, "quizzes", Payload(<<>>, 2, FALSE, FALSE))}

C21_CollectionSavedOnEveryChange == LoadedQuizzes = {quizzes}

\* the same, while the collection is not empty
C21_NonEmptyCollectionSaved == Len(quizzes) > 0 => LoadedQuizzes = {quizzes}

----------------------------------------------------------------------------
(* C22: the export encoding is reversible: decodeQuizData(encodeQuizData(s)) *)
(* equals s for every JSON string s, on each of the three encoding paths,    *)
(* for ASCII and for non-ASCII content.                                      *)
C22_DecodeInvertsEncode == codecStep = "decoded" => codecOutput = codecInput

\* the same on the two encodeURIComponent paths
C22_UriPathsInvert ==
    (codecStep = "decoded" /\ codecPath \in {"UTF8", "SIMPLE"}) => codecOutput = codecInput

\* the same on the Base64 path for a string with a character outside ASCII
C22_Base64InvertsNonAscii ==
    (codecStep = "decoded" /\ codecPath = "ENCODED"
        /\ \E i \in 1..Len(codecInput) : codecInput[i] = "u")
    => codecOutput = codecInput

----------------------------------------------------------------------------
(* C23: MemStorage and DbStorage apply the same rule: after every sequence   *)
(* of createQuiz, updateQuiz, deleteQuiz and syncQuizzes calls from an empty *)
(* store, both returned the same results and hold the same records           *)
(* (uniqueId, content, version).                                             *)
Records(st) ==
    {[uniqueId |-> st.coll[i].uniqueId, title |-> st.coll[i].title,
      password |-> st.coll[i].password, version |-> st.coll[i].version] :
        i \in DOMAIN st.coll}

C23_BackendsAgree ==
    /\ memReturn = dbReturn
    /\ Records(memStore) = Records(dbStore)

----------------------------------------------------------------------------
(* C24: every started quiz eventually finishes: the timer decreases by one   *)
(* per tick without going below 0, at 0 finishQuiz runs, the quiz stops and  *)
(* the results are shown, for any timer a stored quiz can have.              *)
C24_StartedQuizFinishes == isQuizRunning ~> (~isQuizRunning /\ showResults)

\* the same for the quizzes whose timer is not negative
C24_NonNegativeTimerFinishes ==
    (isQuizRunning /\ currentQuiz.timer >= 0) ~> (~isQuizRunning /\ showResults)

\* the timer of a running quiz never goes up and never passes below 0 from above
C24_TimerCountsDownToZero ==
    [][isQuizRunning /\ timer >= 0 /\ timer' # timer => timer' = timer - 1 /\ timer' >= 0]_vars

----------------------------------------------------------------------------
(* C25: deletion is password protected: handleDeleteQuizConfirm removes a    *)
(* quiz only when the entered password equals the master password;           *)
(* otherwise the collection is unchanged and the pending deletion stays      *)
(* pending.                                                                  *)
C25_DeleteNeedsMasterPassword ==
    [][/\ Len(quizzes') < Len(quizzes)
          => passwordInput = MASTER_PASSWORD /\ deletePasswordDialogOpen
       /\ (lastHandler'.name = "handleDeleteQuizConfirm" /\ passwordInput # MASTER_PASSWORD)
          => /\ quizzes' = quizzes
             /\ quizToDelete' = quizToDelete
             /\ quizToDelete' # 0
             /\ deletePasswordDialogOpen']_vars

C25_Witness ==
    /\ lastHandler.name = "handleDeleteQuizConfirm"
    /\ ~lastHandler.accepted
    /\ passwordInput = "p"
    /\ quizToDelete # 0
    /\ quizzes = quizzesBefore
    /\ Len(quizzes) > 0

----------------------------------------------------------------------------
(* C26: the quiz a confirmed delete removes, and the quiz a confirmed edit   *)
(* loads and overwrites, is the one whose card was clicked in the displayed  *)
(* list, also when the filter shows a strict subset; every other quiz is     *)
(* unchanged.                                                                *)
DeleteConfirmed ==
    lastHandler'.name = "handleDeleteQuizConfirm" /\ lastHandler'.accepted

EditConfirmed ==
    lastHandler'.name = "handlePasswordSubmit" /\ lastHandler'.accepted

\* the step of a confirmed delete removes the clicked card's quiz and no other
DeleteRemovesClickedCard ==
    DeleteConfirmed
    => \E i \in 1..Len(quizzes) :
           /\ quizzes[i] = clickedCard
           /\ quizzes' = Without(quizzes, i)

\* the step of a confirmed edit loads the clicked card's quiz into the form
EditLoadsClickedCard ==
    EditConfirmed => newQuiz' = EditForm(clickedCard) /\ quizzes' = quizzes

C26_CardActsOnClickedQuiz ==
    [][DeleteRemovesClickedCard /\ EditLoadsClickedCard]_vars

\* the same while no filter is set
C26_UnfilteredCardActsOnClickedQuiz ==
    [][selectedCategory = Null => DeleteRemovesClickedCard /\ EditLoadsClickedCard]_vars

----------------------------------------------------------------------------
(* C27: syncQuizzes is idempotent: applying the same batch a second time     *)
(* leaves the store, content and version, as it was after the first time.    *)
SyncedAgain == Last(SyncStores(backend, CurrentStore, lastCall.batch))

C27_SyncIdempotent ==
    SyncDone => Records(SyncedAgain) = Records(CurrentStore)

\* the content, apart from the version, is the same after the second time when
\* the batch names each uniqueId once
C27_SyncAgainKeepsContent ==
    (SyncDone /\ Len(lastCall.batch) = 1 /\ ~NeedsUuid(lastCall.batch[1]))
    => {Content(SyncedAgain.coll[i]) : i \in DOMAIN SyncedAgain.coll}
           = {Content(quizCollection[i]) : i \in DOMAIN quizCollection}

----------------------------------------------------------------------------
(* C28: if a storage write is rejected part-way through saveToLocalStorage,  *)
(* the save returns false and a later load returns either the previously     *)
(* saved payload or the default, never a value assembled from chunks of two  *)
(* different saves.                                                          *)
WriteRejected == lastSave.op = "save" /\ lastSave.failAt >= 1

C28_FailedSaveLeavesOldOrDefault ==
    (WriteRejected /\ lastLoad.op = "load" /\ lastLoad.key = lastSave.key
        /\ lastLoad.defaultValue = DefaultValue)
    => /\ ~lastSave.ok
       /\ \/ lastLoad.value = lastLoad.defaultValue
          \/ lastLoad.value \in lastSave.couldLoad

\* the save whose write is rejected returns false
C28_RejectedWriteReturnsFalse == WriteRejected => ~lastSave.ok

\* a rejected write of a direct save leaves what could be loaded before
C28_FailedDirectSaveLeavesOld ==
    (WriteRejected /\ lastSave.data.len < Threshold /\ lastLoad.op = "load")
    => lastLoad.value \in lastSave.couldLoad

----------------------------------------------------------------------------
(* C29: no version increment is lost under interleaving: however the calls   *)
(* of DbStorage updateQuiz and syncQuizzes interleave at their awaits, after *)
(* k accepted updates of a quiz its version is exactly k higher.             *)
C29_NoIncrementLost == table[1].version = 1 + applied

\* every write leaves the version above what it was
C29_VersionGrows == [][table'[1].version >= table[1].version]_vars

----------------------------------------------------------------------------
(* C30: in the client no two quizzes of the collection share an id, after    *)
(* any sequence of create, edit, delete and import, also when an import      *)
(* carries an id that is already present under another title or repeats an   *)
(* id within the batch.                                                      *)
C30_ClientIdsDistinct ==
    \A i, j \in 1..Len(quizzes) : quizzes[i].id = quizzes[j].id => i = j

====
